---------------------------- MODULE Spec2Model ----------------------------
(***************************************************************************)
(* Ion-channel models of jaxley_mech.channels: benison.py (Leak, Na, Kdr,  *)
(* CaL, CaN) and chan24.py (Phototransduction).                            *)
(*                                                                         *)
(* A channel instance is a record [cls, name].  The compartment's state    *)
(* mapping u and parameter mapping params are functions from keys to       *)
(* numbers.  A key is the Python string split at "_" into a sequence of    *)
(* tokens, so f"{prefix}_gNa" is prefix \o <<"gNa">>, and the instance     *)
(* name "A_m" is <<"A", "m">>: two keys are the same string exactly when   *)
(* they are the same token sequence.                                       *)
(*                                                                         *)
(* Numbers.  chan24.py uses only + - * / and integer powers, and is        *)
(* computed in exact rational arithmetic (records [n, d]).  benison.py     *)
(* uses jnp.exp, and is computed in a decimal floating point with a four   *)
(* digit mantissa (records [k, m, e], value m * 10^e) that keeps the IEEE  *)
(* outcomes of a division by zero: x/0 is inf, 0/0 is nan.                 *)
(***************************************************************************)
EXTENDS Integers, Sequences, FiniteSets, TLC

VARIABLES chans,    \* the channel instances on the compartment: records [cls, name]
          u,        \* the compartment's state mapping: key -> number
          params,   \* the compartment's parameter mapping: key -> number
          call,     \* the last call of a channel method, with what it read and returned
          dark,     \* the instances whose state entries init_state has set
          ncalls    \* calls made so far

vars == <<chans, u, params, call, dark, ncalls>>

\* The number of method calls one behaviour makes.
MaxCalls == 2

Abs(x) == IF x < 0 THEN -x ELSE x
Sgn(x) == IF x < 0 THEN -1 ELSE IF x > 0 THEN 1 ELSE 0

(***************************************************************************)
(* Exact rationals, for chan24.py.                                         *)
(***************************************************************************)
RECURSIVE Gcd(_, _)
Gcd(a, b) == IF b = 0 THEN a ELSE Gcd(b, a % b)

\* n / d in lowest terms, d > 0.
Rat(n, d) ==
    LET g == Gcd(Abs(n), d)
    IN  [n |-> n \div g, d |-> d \div g]

RInt(i) == [n |-> i, d |-> 1]
RAdd(x, y) == Rat(x.n * y.d + y.n * x.d, x.d * y.d)
RNeg(x) == [n |-> -x.n, d |-> x.d]
RSub(x, y) == RAdd(x, RNeg(y))
RMul(x, y) == Rat(x.n * y.n, x.d * y.d)
\* x / y for y # 0 (every divisor of chan24.py is a nonzero parameter or
\* 1 + (C / K_GC)^m with m even).
RDiv(x, y) == Rat(Sgn(y.n) * x.n * y.d, x.d * Abs(y.n))
RECURSIVE RPowNat(_, _)
RPowNat(x, k) == IF k = 0 THEN RInt(1) ELSE RMul(x, RPowNat(x, k - 1))
\* x ** y for an exponent parameter that holds a natural number.
RPow(x, y) == RPowNat(x, y.n)

(***************************************************************************)
(* Decimal floating point, for benison.py: m * 10^e with                   *)
(* 1000 <= |m| <= 9999, results rounded to the nearest; nan and +-inf as   *)
(* in IEEE 754 arithmetic, which jax.numpy follows.                        *)
(***************************************************************************)
MantDigits == 4
MantLim == 10 ^ MantDigits

NaN == [k |-> "nan", m |-> 0, e |-> 0]
Inf(s) == [k |-> "inf", m |-> s, e |-> 0]
FZero == [k |-> "fin", m |-> 0, e |-> 0]

RECURSIVE NormPos(_, _)
NormPos(m, e) ==
    IF m >= MantLim THEN NormPos((m + 5) \div 10, e + 1)
    ELSE IF m * 10 < MantLim THEN NormPos(m * 10, e - 1)
    ELSE [k |-> "fin", m |-> m, e |-> e]

Fin(m, e) ==
    IF m = 0 THEN FZero
    ELSE LET p == NormPos(Abs(m), e)
         IN  [k |-> "fin", m |-> Sgn(m) * p.m, e |-> p.e]

IsNaN(x) == x.k = "nan"
IsInf(x) == x.k = "inf"
IsFinite(x) == x.k = "fin"
IsZero(x) == x.k = "fin" /\ x.m = 0

FNeg(x) == [x EXCEPT !.m = -x.m]

FMul(x, y) ==
    IF IsNaN(x) \/ IsNaN(y) THEN NaN
    ELSE IF IsInf(x) \/ IsInf(y)
         THEN IF IsZero(x) \/ IsZero(y) THEN NaN ELSE Inf(Sgn(x.m) * Sgn(y.m))
    ELSE Fin(x.m * y.m, x.e + y.e)

FDiv(x, y) ==
    IF IsNaN(x) \/ IsNaN(y) THEN NaN
    ELSE IF IsInf(x) THEN (IF IsInf(y) THEN NaN
                           ELSE Inf(x.m * (IF y.m < 0 THEN -1 ELSE 1)))
    ELSE IF IsInf(y) THEN FZero
    ELSE IF y.m = 0 THEN (IF x.m = 0 THEN NaN ELSE Inf(Sgn(x.m)))
    ELSE Fin(Sgn(x.m) * Sgn(y.m) * ((Abs(x.m) * MantLim * 10) \div Abs(y.m)),
             x.e - y.e - MantDigits - 1)

\* The sum of two finite nonzero numbers, hi the one with the larger exponent.
FAddAligned(hi, lo) ==
    LET dd == hi.e - lo.e
    IN  IF dd > MantDigits THEN hi
        ELSE Fin(hi.m * (10 ^ dd) + lo.m, lo.e)

FAdd(x, y) ==
    IF IsNaN(x) \/ IsNaN(y) THEN NaN
    ELSE IF IsInf(x) THEN (IF IsInf(y) /\ y.m # x.m THEN NaN ELSE x)
    ELSE IF IsInf(y) THEN y
    ELSE IF x.m = 0 THEN y
    ELSE IF y.m = 0 THEN x
    ELSE IF x.e >= y.e THEN FAddAligned(x, y) ELSE FAddAligned(y, x)

FSub(x, y) == FAdd(x, FNeg(y))

\* Comparisons, FALSE when either side is nan, as in IEEE arithmetic.
FLt(x, y) ==
    /\ ~IsNaN(x) /\ ~IsNaN(y)
    /\ IF IsInf(x) \/ IsInf(y)
       THEN (IsInf(x) /\ x.m < 0 /\ ~(IsInf(y) /\ y.m < 0))
            \/ (IsInf(y) /\ y.m > 0 /\ ~(IsInf(x) /\ x.m > 0))
       ELSE FSub(x, y).m < 0
FLe(x, y) == ~IsNaN(x) /\ ~IsNaN(y) /\ ~FLt(y, x)

\* The decimal literal m * 10^e, and an integer.
Dec(m, e) == Fin(m, e)
FInt(i) == Fin(i, 0)
FOne == FInt(1)
FHalf == Dec(5, -1)

\* x ** p for a literal natural exponent p.
RECURSIVE FPowNat(_, _)
FPowNat(x, p) == IF p = 0 THEN FOne ELSE FMul(x, FPowNat(x, p - 1))

\* exp(x) for |x| < 1/2: the Taylor polynomial of degree 5, in Horner's form
\* 1 + x (1 + x/2 (1 + x/3 (1 + x/4 (1 + x/5)))).
ExpSmall(x) ==
    FAdd(FOne, FMul(x,
    FAdd(FOne, FMul(FDiv(x, FInt(2)),
    FAdd(FOne, FMul(FDiv(x, FInt(3)),
    FAdd(FOne, FMul(FDiv(x, FInt(4)),
    FAdd(FOne, FDiv(x, FInt(5)))))))))))

\* jnp.exp: exp(x) = exp(x/2)^2 down to |x| < 1/2.  exp(0) is exactly 1.
RECURSIVE FExp(_)
FExp(x) ==
    IF IsNaN(x) THEN NaN
    ELSE IF IsInf(x) THEN (IF x.m > 0 THEN x ELSE FZero)
    ELSE IF FLt(x, FHalf) /\ FLt(FNeg(x), FHalf) THEN ExpSmall(x)
    ELSE LET h == FExp(FDiv(x, FInt(2))) IN FMul(h, h)

\* A rational input (a voltage in mV, a time step in ms) as a float.
ToFloat(r) == FDiv(FInt(r.n), FInt(r.d))

(***************************************************************************)
(* Mappings (Python dicts) and the outcome of a method call.               *)
(***************************************************************************)
EmptyMap == [k \in {} |-> FZero]

\* The place of an argument the method does not take (init_state has no state
\* mapping, init_state and compute_current have no dt).
NoArg == "none"

\* dict.update: the entries of new over those of old.
Merge(old, new) ==
    [k \in DOMAIN old \cup DOMAIN new |-> IF k \in DOMAIN new THEN new[k] ELSE old[k]]

(***************************************************************************)
(* What a call leaves behind.  states, params, dt and v are the caller's   *)
(* argument objects as they are after the call (a dict the method writes   *)
(* into changes here; a rebound local does not); reads and preads are the  *)
(* state and parameter keys the method subscripts; ret is the returned     *)
(* value, and fresh says that it is an object built by the call rather     *)
(* than one of the arguments.                                              *)
(***************************************************************************)
Return(states, pp, dt, v, reads, preads, ret) ==
    [states |-> states, params |-> pp, dt |-> dt, v |-> v,
     reads |-> reads, preads |-> preads,
     err |-> FALSE, ret |-> ret, fresh |-> TRUE]

\* A subscript with a key the mapping lacks raises KeyError: nothing is returned.
Raise(states, pp, dt, v, reads, preads) ==
    [states |-> states, params |-> pp, dt |-> dt, v |-> v,
     reads |-> reads, preads |-> preads,
     err |-> TRUE, ret |-> EmptyMap, fresh |-> TRUE]

HasKeys(states, pp, reads, preads) ==
    reads \subseteq DOMAIN states /\ preads \subseteq DOMAIN pp

(***************************************************************************)
(* jaxley.solver_gate.solve_gate_exponential, the host's integrator:       *)
(* x_inf + (x - x_inf) * exp(-dt * (alpha + beta)), x_inf = alpha /        *)
(* (alpha + beta).                                                         *)
(***************************************************************************)
solve_gate_exponential(x, dt, alpha, beta) ==
    LET x_inf == FDiv(alpha, FAdd(alpha, beta))
        exp_term == FExp(FMul(FNeg(dt), FAdd(alpha, beta)))
    IN  FAdd(x_inf, FMul(FSub(x, x_inf), exp_term))

\* solve_gate_exponential(x, dt, *gate(v)): the (alpha, beta) pair unpacked.
solve_gate(x, dt, rates) == solve_gate_exponential(x, dt, rates[1], rates[2])

\* alpha / (alpha + beta) of a gate's (alpha, beta) pair, as init_state computes it.
steady_state(rates) == FDiv(rates[1], FAdd(rates[1], rates[2]))

(***************************************************************************)
(* benison.py: Leak                                                        *)
(***************************************************************************)
Leak_channel_params(prefix) ==
    (prefix \o <<"gl">>) :> Dec(25, -11) @@ (prefix \o <<"el">>) :> FInt(-60)

Leak_channel_states(prefix) == EmptyMap

Leak_update_states(prefix, uu, dt, voltages, pp) ==
    Return(uu, pp, dt, voltages, {}, {}, EmptyMap)

\* compute_current without the conversion of S to mS.
Leak_compute_current_siemens(prefix, uu, voltages, pp) ==
    LET preads == {prefix \o <<"gl">>, prefix \o <<"el">>}
    IN  IF ~HasKeys(uu, pp, {}, preads) THEN Raise(uu, pp, NoArg, voltages, {}, preads)
        ELSE Return(uu, pp, NoArg, voltages, {}, preads,
                    FMul(pp[prefix \o <<"gl">>], FSub(voltages, pp[prefix \o <<"el">>])))

Leak_compute_current(prefix, uu, voltages, pp) ==
    LET preads == {prefix \o <<"gl">>, prefix \o <<"el">>}
    IN  IF ~HasKeys(uu, pp, {}, preads) THEN Raise(uu, pp, NoArg, voltages, {}, preads)
        ELSE LET leak_conds == FMul(pp[prefix \o <<"gl">>], FInt(1000))
             IN  Return(uu, pp, NoArg, voltages, {}, preads,
                        FMul(leak_conds, FSub(voltages, pp[prefix \o <<"el">>])))

Leak_init_state(prefix, voltages, pp) ==
    Return(NoArg, pp, NoArg, voltages, {}, {}, EmptyMap)

(***************************************************************************)
(* benison.py: Na                                                          *)
(***************************************************************************)
Na_m_gate(e) ==
    LET alpha == FDiv(FMul(Dec(5, -1), FAdd(e, FInt(29))),
                      FSub(FOne, FExp(FMul(Dec(-18, -2), FAdd(e, FInt(29))))))
        beta == FMul(FInt(6), FExp(FDiv(FNeg(FAdd(e, FInt(45))), FInt(15))))
    IN  <<alpha, beta>>

Na_h_gate(e) ==
    LET alpha == FMul(Dec(15, -2), FExp(FDiv(FNeg(FAdd(e, FInt(47))), FInt(20))))
        beta == FDiv(Dec(28, -1),
                     FAdd(FOne, FExp(FMul(Dec(-1, -1), FAdd(e, FInt(20))))))
    IN  <<alpha, beta>>

Na_channel_params(prefix) ==
    (prefix \o <<"gNa">>) :> Dec(150, -9) @@ (prefix \o <<"vNa">>) :> FInt(75)

\* channel_states with keys that lack the prefix.
Na_channel_states_bare(prefix) ==
    <<"m">> :> Dec(2, -1) @@ <<"h">> :> Dec(2, -1)

Na_channel_states(prefix) ==
    (prefix \o <<"m">>) :> Dec(2, -1) @@ (prefix \o <<"h">>) :> Dec(2, -1)

Na_update_states(prefix, uu, dt, voltages, pp) ==
    LET km == prefix \o <<"m">>
        kh == prefix \o <<"h">>
    IN  IF ~HasKeys(uu, pp, {km, kh}, {}) THEN Raise(uu, pp, dt, voltages, {km, kh}, {})
        ELSE LET ms == uu[km]
                 hs == uu[kh]
                 m_new == solve_gate(ms, dt, Na_m_gate(voltages))
                 h_new == solve_gate(hs, dt, Na_h_gate(voltages))
             IN  Return(uu, pp, dt, voltages, {km, kh}, {}, km :> m_new @@ kh :> h_new)

Na_compute_current(prefix, uu, voltages, pp) ==
    LET km == prefix \o <<"m">>
        kh == prefix \o <<"h">>
        preads == {prefix \o <<"gNa">>, prefix \o <<"vNa">>}
    IN  IF ~HasKeys(uu, pp, {km, kh}, preads)
        THEN Raise(uu, pp, NoArg, voltages, {km, kh}, preads)
        ELSE LET ms == uu[km]
                 hs == uu[kh]
                 na_conds == FMul(FMul(FMul(pp[prefix \o <<"gNa">>], FPowNat(ms, 3)), hs),
                                  FInt(1000))
                 current == FMul(na_conds, FSub(voltages, pp[prefix \o <<"vNa">>]))
             IN  Return(uu, pp, NoArg, voltages, {km, kh}, preads, current)

Na_init_state(prefix, voltages, pp) ==
    Return(NoArg, pp, NoArg, voltages, {}, {},
               (prefix \o <<"m">>) :> steady_state(Na_m_gate(voltages))
               @@ (prefix \o <<"h">>) :> steady_state(Na_h_gate(voltages)))

(***************************************************************************)
(* benison.py: Kdr                                                         *)
(***************************************************************************)
Kdr_m_gate(e) ==
    LET alpha == FDiv(FMul(Dec(65, -4), FAdd(e, FInt(30))),
                      FSub(FOne, FExp(FMul(Dec(-3, -1), e))))
        beta == FMul(Dec(83, -3), FExp(FDiv(FAdd(e, FInt(15)), FInt(15))))
    IN  <<alpha, beta>>

Kdr_channel_params(prefix) ==
    (prefix \o <<"gKdr">>) :> Dec(75, -9) @@ <<"vK">> :> FInt(-85)

Kdr_channel_states(prefix) == (prefix \o <<"m">>) :> Dec(1, -1)

\* update_states that writes the new gate value into u itself.
Kdr_update_states_in_place(prefix, uu, dt, voltages, pp) ==
    LET km == prefix \o <<"m">>
    IN  IF ~HasKeys(uu, pp, {km}, {}) THEN Raise(uu, pp, dt, voltages, {km}, {})
        ELSE LET new_m == solve_gate(uu[km], dt, Kdr_m_gate(voltages))
             IN  Return(Merge(uu, km :> new_m), pp, dt, voltages, {km}, {}, km :> new_m)

Kdr_update_states(prefix, uu, dt, voltages, pp) ==
    LET km == prefix \o <<"m">>
    IN  IF ~HasKeys(uu, pp, {km}, {}) THEN Raise(uu, pp, dt, voltages, {km}, {})
        ELSE LET ms == uu[km]
                 new_m == solve_gate(ms, dt, Kdr_m_gate(voltages))
             IN  Return(uu, pp, dt, voltages, {km}, {}, km :> new_m)

Kdr_compute_current(prefix, uu, voltages, pp) ==
    LET km == prefix \o <<"m">>
        preads == {prefix \o <<"gKdr">>, <<"vK">>}
    IN  IF ~HasKeys(uu, pp, {km}, preads) THEN Raise(uu, pp, NoArg, voltages, {km}, preads)
        ELSE LET ms == uu[km]
                 kdr_conds == FMul(FMul(pp[prefix \o <<"gKdr">>], FPowNat(ms, 3)), FInt(1000))
             IN  Return(uu, pp, NoArg, voltages, {km}, preads,
                        FMul(kdr_conds, FSub(voltages, pp[<<"vK">>])))

Kdr_init_state(prefix, voltages, pp) ==
    Return(NoArg, pp, NoArg, voltages, {}, {},
               (prefix \o <<"m">>) :> steady_state(Kdr_m_gate(voltages)))

(***************************************************************************)
(* benison.py: CaL                                                         *)
(***************************************************************************)
CaL_m_gate(e) ==
    LET alpha == FDiv(FMul(Dec(61, -3), FSub(e, FInt(3))),
                      FSub(FOne, FExp(FDiv(FNeg(FSub(e, FInt(3))), Dec(125, -1)))))
        beta == FMul(Dec(58, -3), FExp(FDiv(FNeg(FSub(e, FInt(10))), FInt(15))))
    IN  <<alpha, beta>>

CaL_channel_params(prefix) ==
    (prefix \o <<"gCaL">>) :> Dec(2, -9) @@ <<"vCa">> :> FInt(45)

CaL_channel_states(prefix) == (prefix \o <<"m">>) :> Dec(1, -1)

CaL_update_states(prefix, uu, dt, voltages, pp) ==
    LET km == prefix \o <<"m">>
    IN  IF ~HasKeys(uu, pp, {km}, {}) THEN Raise(uu, pp, dt, voltages, {km}, {})
        ELSE LET ms == uu[km]
                 m_new == solve_gate(ms, dt, CaL_m_gate(voltages))
             IN  Return(uu, pp, dt, voltages, {km}, {}, km :> m_new)

CaL_compute_current(prefix, uu, voltages, pp) ==
    LET km == prefix \o <<"m">>
        preads == {prefix \o <<"gCaL">>, <<"vCa">>}
    IN  IF ~HasKeys(uu, pp, {km}, preads) THEN Raise(uu, pp, NoArg, voltages, {km}, preads)
        ELSE LET ms == uu[km]
                 CaL_conds == FMul(FMul(pp[prefix \o <<"gCaL">>], FPowNat(ms, 2)), FInt(1000))
                 current == FMul(CaL_conds, FSub(voltages, pp[<<"vCa">>]))
             IN  Return(uu, pp, NoArg, voltages, {km}, preads, current)

CaL_init_state(prefix, voltages, pp) ==
    Return(NoArg, pp, NoArg, voltages, {}, {},
               (prefix \o <<"m">>) :> steady_state(CaL_m_gate(voltages)))

(***************************************************************************)
(* benison.py: CaN                                                         *)
(***************************************************************************)
CaN_m_gate(e) ==
    LET alpha == FDiv(FMul(Dec(1, -1), FSub(e, FInt(20))),
                      FSub(FOne, FExp(FMul(Dec(-1, -1), FSub(e, FInt(20))))))
        beta == FMul(Dec(4, -1), FExp(FDiv(FNeg(FAdd(e, FInt(25))), FInt(18))))
    IN  <<alpha, beta>>

CaN_h_gate(e) ==
    LET alpha == FMul(Dec(1, -2), FExp(FDiv(FNeg(FAdd(e, FInt(50))), FInt(10))))
        beta == FDiv(Dec(1, -1),
                     FAdd(FOne, FExp(FDiv(FNeg(FAdd(e, FInt(17))), FInt(17)))))
    IN  <<alpha, beta>>

CaN_channel_params(prefix) ==
    (prefix \o <<"gCaN">>) :> Dec(15, -10) @@ <<"vCa">> :> FInt(45)

CaN_channel_states(prefix) ==
    (prefix \o <<"m">>) :> Dec(2, -1) @@ (prefix \o <<"h">>) :> Dec(2, -1)

CaN_update_states(prefix, uu, dt, voltages, pp) ==
    LET km == prefix \o <<"m">>
        kh == prefix \o <<"h">>
    IN  IF ~HasKeys(uu, pp, {km, kh}, {}) THEN Raise(uu, pp, dt, voltages, {km, kh}, {})
        ELSE LET ms == uu[km]
                 hs == uu[kh]
                 m_new == solve_gate(ms, dt, CaN_m_gate(voltages))
                 h_new == solve_gate(hs, dt, CaN_h_gate(voltages))
             IN  Return(uu, pp, dt, voltages, {km, kh}, {}, km :> m_new @@ kh :> h_new)

CaN_compute_current(prefix, uu, voltages, pp) ==
    LET km == prefix \o <<"m">>
        kh == prefix \o <<"h">>
        preads == {prefix \o <<"gCaN">>, <<"vCa">>}
    IN  IF ~HasKeys(uu, pp, {km, kh}, preads)
        THEN Raise(uu, pp, NoArg, voltages, {km, kh}, preads)
        ELSE LET ms == uu[km]
                 hs == uu[kh]
                 CaN_conds == FMul(FMul(FMul(pp[prefix \o <<"gCaN">>], FPowNat(ms, 2)), hs),
                                   FInt(1000))
                 current == FMul(CaN_conds, FSub(voltages, pp[<<"vCa">>]))
             IN  Return(uu, pp, NoArg, voltages, {km, kh}, preads, current)

CaN_init_state(prefix, voltages, pp) ==
    Return(NoArg, pp, NoArg, voltages, {}, {},
               (prefix \o <<"m">>) :> steady_state(CaN_m_gate(voltages))
               @@ (prefix \o <<"h">>) :> steady_state(CaN_h_gate(voltages)))

(***************************************************************************)
(* chan24.py: Phototransduction                                            *)
(***************************************************************************)
Phototransduction_channel_params(prefix) ==
    (prefix \o <<"sigma">>) :> RInt(22)
    @@ (prefix \o <<"gamma">>) :> RInt(10)
    @@ (prefix \o <<"phi">>) :> RInt(22)
    @@ (prefix \o <<"eta">>) :> RInt(2000)
    @@ (prefix \o <<"G", "dark">>) :> RInt(20)
    @@ (prefix \o <<"k">>) :> Rat(1, 100)
    @@ (prefix \o <<"h">>) :> RInt(4)
    @@ (prefix \o <<"Ca", "dark">>) :> RInt(1)
    @@ (prefix \o <<"beta">>) :> RInt(9)
    @@ (prefix \o <<"n">>) :> RInt(3)
    @@ (prefix \o <<"q">>) :> RInt(1)
    @@ (prefix \o <<"S", "max">>) :> RInt(30909)
    @@ (prefix \o <<"K", "GC">>) :> Rat(1, 2)
    @@ (prefix \o <<"m">>) :> RInt(4)
    @@ (prefix \o <<"I", "dark">>) :> RMul(RPowNat(RInt(20), 3), Rat(1, 100))

Phototransduction_channel_states(prefix) ==
    (prefix \o <<"R">>) :> RInt(0)
    @@ (prefix \o <<"P">>) :> RInt(90)
    @@ (prefix \o <<"G">>) :> RInt(1)
    @@ (prefix \o <<"S">>) :> RInt(1)
    @@ (prefix \o <<"C">>) :> Rat(336, 1000)
    @@ (prefix \o <<"Stim">>) :> RInt(0)

\* self.current_name = f"iPhoto": the same key for every instance.
Phototransduction_current_name == <<"iPhoto">>

\* dt left in ms.
Phototransduction_dt_unscaled(dt) == dt

\* dt /= 1000 rebinds the local name dt; the caller's number is not changed.
Phototransduction_dt_seconds(dt) == RDiv(dt, RInt(1000))

\* The q read from params, kept.
Phototransduction_q_cached(q, beta, C_dark, I_dark) == q

\* q = beta * C_dark / I_dark overwrites the q read from params.
Phototransduction_q(q, beta, C_dark, I_dark) == RDiv(RMul(beta, C_dark), I_dark)

\* The S_max read from params, kept.
Phototransduction_S_max_cached(S_max, eta, phi, G_dark, C_dark, K_GC, m) == S_max

\* S_max = eta / phi * G_dark * (1 + (C_dark / K_GC) ** m) overwrites the S_max
\* read from params.
Phototransduction_S_max(S_max, eta, phi, G_dark, C_dark, K_GC, m) ==
    RMul(RMul(RDiv(eta, phi), G_dark), RAdd(RInt(1), RPow(RDiv(C_dark, K_GC), m)))

Phototransduction_update_states(prefix, states, dt_ms, v, pp) ==
    LET preads == {prefix \o <<"gamma">>, prefix \o <<"sigma">>, prefix \o <<"phi">>,
                   prefix \o <<"eta">>, prefix \o <<"q">>, prefix \o <<"beta">>,
                   prefix \o <<"S", "max">>, prefix \o <<"K", "GC">>, prefix \o <<"m">>,
                   prefix \o <<"k">>, prefix \o <<"n">>, prefix \o <<"I", "dark">>,
                   prefix \o <<"Ca", "dark">>, prefix \o <<"G", "dark">>}
        reads == {prefix \o <<"Stim">>, prefix \o <<"P">>, prefix \o <<"R">>,
                  prefix \o <<"G">>, prefix \o <<"S">>, prefix \o <<"C">>,
                  Phototransduction_current_name}
    IN  IF ~HasKeys(states, pp, reads, preads)
        THEN Raise(states, pp, dt_ms, v, reads, preads)
        ELSE LET dt == Phototransduction_dt_seconds(dt_ms)
                 gamma == pp[prefix \o <<"gamma">>]
                 sigma == pp[prefix \o <<"sigma">>]
                 phi == pp[prefix \o <<"phi">>]
                 eta == pp[prefix \o <<"eta">>]
                 beta == pp[prefix \o <<"beta">>]
                 K_GC == pp[prefix \o <<"K", "GC">>]
                 m == pp[prefix \o <<"m">>]
                 k == pp[prefix \o <<"k">>]
                 n == pp[prefix \o <<"n">>]
                 I_dark == pp[prefix \o <<"I", "dark">>]
                 C_dark == pp[prefix \o <<"Ca", "dark">>]
                 G_dark == pp[prefix \o <<"G", "dark">>]
                 q == Phototransduction_q(pp[prefix \o <<"q">>], beta, C_dark, I_dark)
                 S_max == Phototransduction_S_max(pp[prefix \o <<"S", "max">>],
                                                  eta, phi, G_dark, C_dark, K_GC, m)
                 Stim == states[prefix \o <<"Stim">>]
                 P == states[prefix \o <<"P">>]
                 R == states[prefix \o <<"R">>]
                 G == states[prefix \o <<"G">>]
                 S == states[prefix \o <<"S">>]
                 C == states[prefix \o <<"C">>]
                 dR_dt == RSub(RMul(gamma, Stim), RMul(sigma, R))
                 dP_dt == RAdd(RSub(R, RMul(phi, P)), eta)
                 dG_dt == RSub(S, RMul(P, G))
                 I == RMul(k, RPow(G, n))
                 dC_dt == RSub(RMul(q, I), RMul(beta, C))
                 S_new == RDiv(S_max, RAdd(RInt(1), RPow(RDiv(C, K_GC), m)))
                 R_new == RAdd(R, RMul(dR_dt, dt))
                 P_new == RAdd(P, RMul(dP_dt, dt))
                 G_new == RAdd(G, RMul(dG_dt, dt))
                 C_new == RAdd(C, RMul(dC_dt, dt))
             IN  Return(states, pp, dt_ms, v, reads, preads,
                        (prefix \o <<"R">>) :> R_new
                        @@ (prefix \o <<"P">>) :> P_new
                        @@ (prefix \o <<"G">>) :> G_new
                        @@ (prefix \o <<"S">>) :> S_new
                        @@ (prefix \o <<"C">>) :> C_new
                        @@ (prefix \o <<"Stim">>) :> Stim)

Phototransduction_compute_current(prefix, states, v, pp) ==
    LET reads == {prefix \o <<"G">>}
        preads == {prefix \o <<"n">>, prefix \o <<"k">>}
    IN  IF ~HasKeys(states, pp, reads, preads)
        THEN Raise(states, pp, NoArg, v, reads, preads)
        ELSE LET G == states[prefix \o <<"G">>]
                 n == pp[prefix \o <<"n">>]
                 k == pp[prefix \o <<"k">>]
                 I == RMul(RNeg(k), RPow(G, n))
             IN  Return(states, pp, NoArg, v, reads, preads, I)

Phototransduction_init_state(prefix, v, pp) ==
    LET preads == {prefix \o <<"eta">>, prefix \o <<"phi">>, prefix \o <<"G", "dark">>,
                   prefix \o <<"Ca", "dark">>}
    IN  IF ~HasKeys(EmptyMap, pp, {}, preads)
        THEN Raise(NoArg, pp, NoArg, v, {}, preads)
        ELSE LET eta == pp[prefix \o <<"eta">>]
                 phi == pp[prefix \o <<"phi">>]
                 G_dark == pp[prefix \o <<"G", "dark">>]
                 Ca_dark == pp[prefix \o <<"Ca", "dark">>]
             IN  Return(NoArg, pp, NoArg, v, {}, preads,
                        (prefix \o <<"R">>) :> RInt(0)
                        @@ (prefix \o <<"P">>) :> RDiv(eta, phi)
                        @@ (prefix \o <<"G">>) :> G_dark
                        @@ (prefix \o <<"S">>) :> RDiv(RMul(G_dark, eta), phi)
                        @@ (prefix \o <<"C">>) :> Ca_dark
                        @@ (prefix \o <<"Stim">>) :> RInt(0))

(***************************************************************************)
(* The compartment: channel instances and the calls the host makes.        *)
(***************************************************************************)
Inst(cls, name) == [cls |-> cls, name |-> name]

Classes == {"Leak", "Na", "Kdr", "CaL", "CaN", "Phototransduction"}

\* self.channel_params and self.channel_states as __init__ builds them.
ChannelParams(i) ==
    CASE i.cls = "Leak" -> Leak_channel_params(i.name)
      [] i.cls = "Na" -> Na_channel_params(i.name)
      [] i.cls = "Kdr" -> Kdr_channel_params(i.name)
      [] i.cls = "CaL" -> CaL_channel_params(i.name)
      [] i.cls = "CaN" -> CaN_channel_params(i.name)
      [] i.cls = "Phototransduction" -> Phototransduction_channel_params(i.name)

ChannelStates(i) ==
    CASE i.cls = "Leak" -> Leak_channel_states(i.name)
      [] i.cls = "Na" -> Na_channel_states(i.name)
      [] i.cls = "Kdr" -> Kdr_channel_states(i.name)
      [] i.cls = "CaL" -> CaL_channel_states(i.name)
      [] i.cls = "CaN" -> CaN_channel_states(i.name)
      [] i.cls = "Phototransduction" -> Phototransduction_channel_states(i.name)

\* The mappings of a compartment that carries the instances cs: the union of
\* the instances' own mappings (a key two instances share is stored once).
AllStates(cs) ==
    [k \in UNION {DOMAIN ChannelStates(i) : i \in cs} |->
        ChannelStates(CHOOSE i \in cs : k \in DOMAIN ChannelStates(i))[k]]

AllParams(cs) ==
    [k \in UNION {DOMAIN ChannelParams(i) : i \in cs} |->
        ChannelParams(CHOOSE i \in cs : k \in DOMAIN ChannelParams(i))[k]]

\* The entry the host keeps under a channel's current_name.
CurrentEntries(cs) ==
    [k \in {Phototransduction_current_name : i \in {j \in cs : j.cls = "Phototransduction"}}
        |-> RInt(0)]

(***************************************************************************)
(* The states of the cascade that update_states and compute_current are    *)
(* run on: exact arithmetic leaves the machine integers after two steps    *)
(* away from a fixed point.                                                *)
(***************************************************************************)
PhotoValues ==
    [R |-> {RInt(0), RInt(1)},
     P |-> {Rat(1000, 11), RInt(90)},
     G |-> {RInt(20), RInt(1)},
     S |-> {Rat(20000, 11), RInt(1)},
     C |-> {RInt(1), Rat(1, 2)},
     Stim |-> {RInt(0), RInt(1)}]

PhotoStates(prefix) ==
    {(prefix \o <<"R">>) :> r @@ (prefix \o <<"P">>) :> p @@ (prefix \o <<"G">>) :> g
     @@ (prefix \o <<"S">>) :> s @@ (prefix \o <<"C">>) :> c @@ (prefix \o <<"Stim">>) :> st :
        r \in PhotoValues.R, p \in PhotoValues.P, g \in PhotoValues.G,
        s \in PhotoValues.S, c \in PhotoValues.C, st \in PhotoValues.Stim}

InPhotoValues(i, uu) ==
    \E st \in PhotoStates(i.name) : \A k \in DOMAIN st : k \in DOMAIN uu /\ uu[k] = st[k]

NoCall ==
    [op |-> "none", inst |-> Inst("none", <<>>), dt |-> NoArg, v |-> NoArg,
     before |-> NoArg, after |-> NoArg, reads |-> {}, preads |-> {},
     err |-> FALSE, ret |-> NoArg, fresh |-> TRUE]

Called(op, i, dt, v, passed, res) ==
    [op |-> op, inst |-> i, dt |-> dt, v |-> v,
     before |-> passed,
     after |-> [states |-> res.states, params |-> res.params, dt |-> res.dt, v |-> res.v],
     reads |-> res.reads, preads |-> res.preads,
     err |-> res.err, ret |-> res.ret, fresh |-> res.fresh]

\* The host calls init_state(voltages, params) of instance i, which ends as
\* res, and stores the returned entries.
HostInitState(i, v, voltages, res) ==
    /\ call' = Called("init", i, NoArg, v,
                      [states |-> NoArg, params |-> params, dt |-> NoArg, v |-> voltages],
                      res)
    /\ u' = IF res.err THEN u ELSE Merge(u, res.ret)
    /\ params' = res.params
    /\ dark' = IF res.err THEN dark ELSE dark \cup {i}
    /\ ncalls' = ncalls + 1
    /\ UNCHANGED chans

\* The host calls update_states(u, dt, voltages, params) of instance i, which
\* ends as res, and stores the returned entries.
HostUpdateStates(i, dt_ms, v, dt, voltages, res) ==
    /\ call' = Called("update", i, dt_ms, v,
                      [states |-> u, params |-> params, dt |-> dt, v |-> voltages], res)
    /\ u' = IF res.err THEN res.states ELSE Merge(res.states, res.ret)
    /\ params' = res.params
    /\ ncalls' = ncalls + 1
    /\ UNCHANGED <<chans, dark>>

\* The host calls compute_current(u, voltages, params) of instance i, which
\* ends as res.
HostComputeCurrent(i, v, voltages, res) ==
    /\ call' = Called("current", i, NoArg, v,
                      [states |-> u, params |-> params, dt |-> NoArg, v |-> voltages], res)
    /\ u' = res.states
    /\ params' = res.params
    /\ ncalls' = ncalls + 1
    /\ UNCHANGED <<chans, dark>>

(***************************************************************************)
(* One action per method of each class, the voltage drawn from Vs (mV) and *)
(* the time step from Ds (ms); a run makes at most MaxCalls calls.         *)
(***************************************************************************)
LeakInitState(Vs) ==
    \E i \in chans, v \in Vs :
        /\ i.cls = "Leak"
        /\ ncalls < MaxCalls
        /\ \E res \in {Leak_init_state(i.name, ToFloat(v), params)} :
              HostInitState(i, v, ToFloat(v), res)

LeakUpdateStates(Vs, Ds) ==
    \E i \in chans, v \in Vs, dt \in Ds :
        /\ i.cls = "Leak"
        /\ ncalls < MaxCalls
        /\ \E res \in {Leak_update_states(i.name, u, ToFloat(dt), ToFloat(v), params)} :
              HostUpdateStates(i, dt, v, ToFloat(dt), ToFloat(v), res)

LeakComputeCurrent(Vs) ==
    \E i \in chans, v \in Vs :
        /\ i.cls = "Leak"
        /\ ncalls < MaxCalls
        /\ \E res \in {Leak_compute_current(i.name, u, ToFloat(v), params)} :
              HostComputeCurrent(i, v, ToFloat(v), res)

NaInitState(Vs) ==
    \E i \in chans, v \in Vs :
        /\ i.cls = "Na"
        /\ ncalls < MaxCalls
        /\ \E res \in {Na_init_state(i.name, ToFloat(v), params)} :
              HostInitState(i, v, ToFloat(v), res)

NaUpdateStates(Vs, Ds) ==
    \E i \in chans, v \in Vs, dt \in Ds :
        /\ i.cls = "Na"
        /\ ncalls < MaxCalls
        /\ \E res \in {Na_update_states(i.name, u, ToFloat(dt), ToFloat(v), params)} :
              HostUpdateStates(i, dt, v, ToFloat(dt), ToFloat(v), res)

NaComputeCurrent(Vs) ==
    \E i \in chans, v \in Vs :
        /\ i.cls = "Na"
        /\ ncalls < MaxCalls
        /\ \E res \in {Na_compute_current(i.name, u, ToFloat(v), params)} :
              HostComputeCurrent(i, v, ToFloat(v), res)

KdrInitState(Vs) ==
    \E i \in chans, v \in Vs :
        /\ i.cls = "Kdr"
        /\ ncalls < MaxCalls
        /\ \E res \in {Kdr_init_state(i.name, ToFloat(v), params)} :
              HostInitState(i, v, ToFloat(v), res)

KdrUpdateStates(Vs, Ds) ==
    \E i \in chans, v \in Vs, dt \in Ds :
        /\ i.cls = "Kdr"
        /\ ncalls < MaxCalls
        /\ \E res \in {Kdr_update_states(i.name, u, ToFloat(dt), ToFloat(v), params)} :
              HostUpdateStates(i, dt, v, ToFloat(dt), ToFloat(v), res)

KdrComputeCurrent(Vs) ==
    \E i \in chans, v \in Vs :
        /\ i.cls = "Kdr"
        /\ ncalls < MaxCalls
        /\ \E res \in {Kdr_compute_current(i.name, u, ToFloat(v), params)} :
              HostComputeCurrent(i, v, ToFloat(v), res)

CaLInitState(Vs) ==
    \E i \in chans, v \in Vs :
        /\ i.cls = "CaL"
        /\ ncalls < MaxCalls
        /\ \E res \in {CaL_init_state(i.name, ToFloat(v), params)} :
              HostInitState(i, v, ToFloat(v), res)

CaLUpdateStates(Vs, Ds) ==
    \E i \in chans, v \in Vs, dt \in Ds :
        /\ i.cls = "CaL"
        /\ ncalls < MaxCalls
        /\ \E res \in {CaL_update_states(i.name, u, ToFloat(dt), ToFloat(v), params)} :
              HostUpdateStates(i, dt, v, ToFloat(dt), ToFloat(v), res)

CaLComputeCurrent(Vs) ==
    \E i \in chans, v \in Vs :
        /\ i.cls = "CaL"
        /\ ncalls < MaxCalls
        /\ \E res \in {CaL_compute_current(i.name, u, ToFloat(v), params)} :
              HostComputeCurrent(i, v, ToFloat(v), res)

CaNInitState(Vs) ==
    \E i \in chans, v \in Vs :
        /\ i.cls = "CaN"
        /\ ncalls < MaxCalls
        /\ \E res \in {CaN_init_state(i.name, ToFloat(v), params)} :
              HostInitState(i, v, ToFloat(v), res)

CaNUpdateStates(Vs, Ds) ==
    \E i \in chans, v \in Vs, dt \in Ds :
        /\ i.cls = "CaN"
        /\ ncalls < MaxCalls
        /\ \E res \in {CaN_update_states(i.name, u, ToFloat(dt), ToFloat(v), params)} :
              HostUpdateStates(i, dt, v, ToFloat(dt), ToFloat(v), res)

CaNComputeCurrent(Vs) ==
    \E i \in chans, v \in Vs :
        /\ i.cls = "CaN"
        /\ ncalls < MaxCalls
        /\ \E res \in {CaN_compute_current(i.name, u, ToFloat(v), params)} :
              HostComputeCurrent(i, v, ToFloat(v), res)

PhototransductionInitState(Vs) ==
    \E i \in chans, v \in Vs :
        /\ i.cls = "Phototransduction"
        /\ ncalls < MaxCalls
        /\ \E res \in {Phototransduction_init_state(i.name, v, params)} :
              HostInitState(i, v, v, res)

PhototransductionUpdateStates(Vs, Ds) ==
    \E i \in chans, v \in Vs, dt \in Ds :
        /\ i.cls = "Phototransduction"
        /\ ncalls < MaxCalls
        /\ InPhotoValues(i, u)
        /\ \E res \in {Phototransduction_update_states(i.name, u, dt, v, params)} :
              HostUpdateStates(i, dt, v, dt, v, res)

PhototransductionComputeCurrent(Vs) ==
    \E i \in chans, v \in Vs :
        /\ i.cls = "Phototransduction"
        /\ ncalls < MaxCalls
        /\ InPhotoValues(i, u)
        /\ \E res \in {Phototransduction_compute_current(i.name, u, v, params)} :
              HostComputeCurrent(i, v, v, res)

(***************************************************************************)
(* Inputs.  Voltages holds the voltage at which each rate formula's        *)
(* denominator 1 - exp(...) vanishes (-29, 0, 3, 20), the leak reversal    *)
(* potential, and voltages between and around them.                        *)
(***************************************************************************)
Voltages == {RInt(x) : x \in {-60, -29, -10, 0, 3, 20, 40}}
TimeSteps == {Rat(1, 40), RInt(1)}

HostVoltages == {RInt(-60), RInt(0)}
HostTimeSteps == {Rat(1, 40)}

PhotoVoltages == {RInt(-40)}
PhotoTimeSteps == {RInt(0), RInt(500), RInt(1000)}

DefaultName(cls) == <<cls>>

GatePool == {Inst(c, DefaultName(c)) : c \in {"Leak", "Na", "Kdr", "CaL", "CaN"}}

Pool ==
    {Inst(c, DefaultName(c)) : c \in Classes}
    \cup {Inst("Phototransduction", <<"A">>), Inst("Na", <<"A", "m">>),
          Inst("Kdr", <<"B">>), Inst("CaN", <<"A">>)}

\* Overridden values of the two parameters update_states recomputes.
PhotoOverrides(prefix) ==
    {(prefix \o <<"q">>) :> q @@ (prefix \o <<"S", "max">>) :> s :
        q \in {RInt(1), Rat(1, 2)}, s \in {RInt(30909), RInt(1000)}}

(***************************************************************************)
(* Spec: a compartment with two channel instances of different names.      *)
(***************************************************************************)
Init ==
    /\ \E a \in Pool, b \in Pool : a.name # b.name /\ chans = {a, b}
    /\ \E hostCurrents \in BOOLEAN :
          u = IF hostCurrents
              THEN Merge(AllStates(chans), CurrentEntries(chans))
              ELSE AllStates(chans)
    /\ params = AllParams(chans)
    /\ call = NoCall
    /\ dark = {}
    /\ ncalls = 0

Next ==
    \/ LeakInitState(HostVoltages)
    \/ LeakUpdateStates(HostVoltages, HostTimeSteps)
    \/ LeakComputeCurrent(HostVoltages)
    \/ NaInitState(HostVoltages)
    \/ NaUpdateStates(HostVoltages, HostTimeSteps)
    \/ NaComputeCurrent(HostVoltages)
    \/ KdrInitState(HostVoltages)
    \/ KdrUpdateStates(HostVoltages, HostTimeSteps)
    \/ KdrComputeCurrent(HostVoltages)
    \/ CaLInitState(HostVoltages)
    \/ CaLUpdateStates(HostVoltages, HostTimeSteps)
    \/ CaLComputeCurrent(HostVoltages)
    \/ CaNInitState(HostVoltages)
    \/ CaNUpdateStates(HostVoltages, HostTimeSteps)
    \/ CaNComputeCurrent(HostVoltages)
    \/ PhototransductionInitState(HostVoltages)
    \/ PhototransductionUpdateStates(HostVoltages, HostTimeSteps)
    \/ PhototransductionComputeCurrent(HostVoltages)

Spec == Init /\ [][Next]_vars

(***************************************************************************)
(* SpecGates: one channel of benison.py over the voltage grid.             *)
(***************************************************************************)
InitGates ==
    /\ \E a \in GatePool : chans = {a}
    /\ u = AllStates(chans)
    /\ params = AllParams(chans)
    /\ call = NoCall
    /\ dark = {}
    /\ ncalls = 0

NextGates ==
    \/ LeakInitState(Voltages)
    \/ LeakUpdateStates(Voltages, TimeSteps)
    \/ LeakComputeCurrent(Voltages)
    \/ NaInitState(Voltages)
    \/ NaUpdateStates(Voltages, TimeSteps)
    \/ NaComputeCurrent(Voltages)
    \/ KdrInitState(Voltages)
    \/ KdrUpdateStates(Voltages, TimeSteps)
    \/ KdrComputeCurrent(Voltages)
    \/ CaLInitState(Voltages)
    \/ CaLUpdateStates(Voltages, TimeSteps)
    \/ CaLComputeCurrent(Voltages)
    \/ CaNInitState(Voltages)
    \/ CaNUpdateStates(Voltages, TimeSteps)
    \/ CaNComputeCurrent(Voltages)

SpecGates == InitGates /\ [][NextGates]_vars

(***************************************************************************)
(* SpecPhoto: one Phototransduction channel, its state and the two         *)
(* recomputed parameters drawn from bounded sets, the host keeping the     *)
(* iPhoto entry.                                                           *)
(***************************************************************************)
InitPhoto ==
    /\ chans = {Inst("Phototransduction", DefaultName("Phototransduction"))}
    /\ \E st \in PhotoStates(DefaultName("Phototransduction")) :
          u = Merge(st, CurrentEntries(chans))
    /\ \E ov \in PhotoOverrides(DefaultName("Phototransduction")) :
          params = Merge(AllParams(chans), ov)
    /\ call = NoCall
    /\ dark = {}
    /\ ncalls = 0

NextPhoto ==
    \/ PhototransductionInitState(PhotoVoltages)
    \/ PhototransductionUpdateStates(PhotoVoltages, PhotoTimeSteps)
    \/ PhototransductionComputeCurrent(PhotoVoltages)

SpecPhoto == InitPhoto /\ [][NextPhoto]_vars
(***************************************************************************)
(* Properties.                                                             *)
(***************************************************************************)
Gated == {"Na", "Kdr", "CaL", "CaN"}

\* The (alpha, beta) pairs of a gated class at voltage e.
Rates(cls, e) ==
    CASE cls = "Na" -> {Na_m_gate(e), Na_h_gate(e)}
      [] cls = "Kdr" -> {Kdr_m_gate(e)}
      [] cls = "CaL" -> {CaL_m_gate(e)}
      [] cls = "CaN" -> {CaN_m_gate(e), CaN_h_gate(e)}
      [] OTHER -> {}

\* i.init_state(voltages, pp).
InitState(i, voltages, pp) ==
    CASE i.cls = "Leak" -> Leak_init_state(i.name, voltages, pp)
      [] i.cls = "Na" -> Na_init_state(i.name, voltages, pp)
      [] i.cls = "Kdr" -> Kdr_init_state(i.name, voltages, pp)
      [] i.cls = "CaL" -> CaL_init_state(i.name, voltages, pp)
      [] i.cls = "CaN" -> CaN_init_state(i.name, voltages, pp)
      [] i.cls = "Phototransduction" -> Phototransduction_init_state(i.name, voltages, pp)

\* Key k is the instance's name followed by a field name.
Prefixed(i, k) == Len(k) > Len(i.name) /\ SubSeq(k, 1, Len(i.name)) = i.name

\* The reversal potentials that Kdr, CaL and CaN store without a prefix.
SharedReversalKeys == {<<"vK">>, <<"vCa">>}

InUnit(x) == FLe(FZero, x) /\ FLe(x, FOne)

HasDefaultParams(i, pp) ==
    \A k \in DOMAIN ChannelParams(i) : k \in DOMAIN pp /\ pp[k] = ChannelParams(i)[k]

(***************************************************************************)
(* C1                                                                      *)
(***************************************************************************)
\* C1 (corrected): Leak.compute_current with the default parameters returns
\* gl * 1000 * (V - el) = 0.25e-6 * (V + 60): 0 at V = -60 and 1.5e-5 at V = 0.
C1_LeakCurrent ==
    (call.op = "current" /\ call.inst.cls = "Leak"
        /\ HasDefaultParams(call.inst, call.before.params))
    => /\ ~call.err
       /\ call.ret = Fin(25 * (call.v.n + 60), -8)
       /\ (call.v = RInt(-60) => call.ret = FZero)
       /\ (call.v = RInt(0) => call.ret = Dec(15, -6))

C1_LeakCurrentAtZero ==
    /\ call.op = "current" /\ call.inst.cls = "Leak"
    /\ HasDefaultParams(call.inst, call.before.params)
    /\ call.v = RInt(0)
    /\ call.ret = Dec(15, -6)

\* C1 as stated: 0 at V = -60 and 0.015 at V = 0.
C1_AsStated ==
    (call.op = "current" /\ call.inst.cls = "Leak"
        /\ HasDefaultParams(call.inst, call.before.params))
    => /\ ~call.err
       /\ (call.v = RInt(-60) => call.ret = FZero)
       /\ (call.v = RInt(0) => call.ret = Dec(15, -3))

C3_AsStated ==
    call.op = "update"
    => /\ call.reads \subseteq DOMAIN ChannelStates(call.inst)
       /\ DOMAIN call.ret \subseteq DOMAIN ChannelStates(call.inst)
       /\ \A b \in chans \ {call.inst} : \A k \in DOMAIN ChannelStates(b) :
             u[k] = call.before.states[k]

C5_AsStated ==
    (call.op = "init" /\ call.inst.cls \in Gated)
    => /\ \A r \in Rates(call.inst.cls, call.before.v) :
             IsFinite(r[1]) /\ IsFinite(r[2]) /\ ~IsZero(FAdd(r[1], r[2]))
       /\ \A k \in DOMAIN call.ret : IsFinite(call.ret[k])

(***************************************************************************)
(* C6                                                                      *)
(***************************************************************************)
\* C6 (confirmed): a call of update_states, compute_current or init_state leaves
\* the caller's state mapping, parameter mapping, voltage and dt as they were,
\* and what it returns is a newly built object.
C6_InputsUnchanged ==
    call.op # "none" => call.after = call.before /\ call.fresh

C6_ReturnedNewValues ==
    /\ call.op = "update" /\ ~call.err
    /\ \E k \in DOMAIN call.ret :
          /\ call.ret[k] # call.before.states[k]
          /\ call.after.states[k] = call.before.states[k]
    /\ call.after.params = params

(***************************************************************************)
(* C7                                                                      *)
(***************************************************************************)
\* The forward-Euler value old + derivative * (dt / 1000), dt in ms.
EulerStep(old, derivative, dt_ms) ==
    RAdd(old, RDiv(RMul(derivative, dt_ms), RInt(1000)))

\* R, P, G and C of an update_states call are the Euler steps of the old state.
EulerOfOldState ==
    LET p == call.inst.name
        pp == call.before.params
        old == call.before.states
        q == RDiv(RMul(pp[p \o <<"beta">>], pp[p \o <<"Ca", "dark">>]), pp[p \o <<"I", "dark">>])
        dR == RSub(RMul(pp[p \o <<"gamma">>], old[p \o <<"Stim">>]),
                   RMul(pp[p \o <<"sigma">>], old[p \o <<"R">>]))
        dP == RAdd(RSub(old[p \o <<"R">>], RMul(pp[p \o <<"phi">>], old[p \o <<"P">>])),
                   pp[p \o <<"eta">>])
        dG == RSub(old[p \o <<"S">>], RMul(old[p \o <<"P">>], old[p \o <<"G">>]))
        dC == RSub(RMul(q, RMul(pp[p \o <<"k">>], RPow(old[p \o <<"G">>], pp[p \o <<"n">>]))),
                   RMul(pp[p \o <<"beta">>], old[p \o <<"C">>]))
    IN  /\ call.ret[p \o <<"R">>] = EulerStep(old[p \o <<"R">>], dR, call.dt)
        /\ call.ret[p \o <<"P">>] = EulerStep(old[p \o <<"P">>], dP, call.dt)
        /\ call.ret[p \o <<"G">>] = EulerStep(old[p \o <<"G">>], dG, call.dt)
        /\ call.ret[p \o <<"C">>] = EulerStep(old[p \o <<"C">>], dC, call.dt)

\* C7 (corrected): update_states returns R, P, G and C as old value +
\* derivative * (dt / 1000), the derivatives taken from the old state; S is not
\* integrated: the returned S is S_max / (1 + (C_old / K_GC)^m), whatever dt
\* and the old S are.
C7_EulerExceptS ==
    (call.op = "update" /\ call.inst.cls = "Phototransduction" /\ ~call.err)
    => /\ EulerOfOldState
       /\ LET p == call.inst.name
              pp == call.before.params
              hill == RAdd(RInt(1), RPow(RDiv(call.before.states[p \o <<"C">>],
                                              pp[p \o <<"K", "GC">>]), pp[p \o <<"m">>]))
              hill_dark == RAdd(RInt(1), RPow(RDiv(pp[p \o <<"Ca", "dark">>],
                                                   pp[p \o <<"K", "GC">>]), pp[p \o <<"m">>]))
          IN  RMul(RMul(call.ret[p \o <<"S">>], hill), pp[p \o <<"phi">>])
                 = RMul(RMul(pp[p \o <<"eta">>], pp[p \o <<"G", "dark">>]), hill_dark)

C7_StepTaken ==
    /\ call.op = "update" /\ call.inst.cls = "Phototransduction" /\ ~call.err
    /\ call.dt = RInt(500)
    /\ call.ret[call.inst.name \o <<"R">>] # call.before.states[call.inst.name \o <<"R">>]
    /\ call.ret[call.inst.name \o <<"G">>] # call.before.states[call.inst.name \o <<"G">>]
    /\ call.ret[call.inst.name \o <<"S">>] # call.before.states[call.inst.name \o <<"S">>]

\* C7 as stated: all five are old value + derivative * (dt / 1000), so with
\* dt = 0 the returned S is the old S.
C7_AsStated ==
    (call.op = "update" /\ call.inst.cls = "Phototransduction" /\ ~call.err)
    => /\ EulerOfOldState
       /\ (call.dt = RInt(0)
             => call.ret[call.inst.name \o <<"S">>]
                   = call.before.states[call.inst.name \o <<"S">>])

(***************************************************************************)
(* C8                                                                      *)
(***************************************************************************)
\* C8 as stated: where the rates are finite they are not negative, and the
\* gate values init_state returns, and those update_states returns from gate
\* values in [0, 1], are in [0, 1].
C8_AsStated ==
    (call.op \in {"init", "update"} /\ call.inst.cls \in Gated /\ ~call.err
        /\ \A r \in Rates(call.inst.cls, call.before.v) : IsFinite(r[1]) /\ IsFinite(r[2])
        /\ (call.op = "update"
              => \A k \in DOMAIN call.ret : InUnit(call.before.states[k])))
    => /\ \A r \in Rates(call.inst.cls, call.before.v) :
             FLe(FZero, r[1]) /\ FLe(FZero, r[2])
       /\ \A k \in DOMAIN call.ret : InUnit(call.ret[k])

(***************************************************************************)
(* C9                                                                      *)
(***************************************************************************)
\* C9 (confirmed): update_states returns the same mapping whatever values the
\* parameter mapping holds for q and S_max.
C9_IgnoresQAndSMax ==
    (call.op = "update" /\ call.inst.cls = "Phototransduction" /\ ~call.err)
    => \A ov \in PhotoOverrides(call.inst.name) :
          Phototransduction_update_states(call.inst.name, call.before.states, call.before.dt,
                                          call.before.v, Merge(call.before.params, ov)).ret
             = call.ret

C9_UpdatedWithOverrides ==
    /\ call.op = "update" /\ call.inst.cls = "Phototransduction" /\ ~call.err
    /\ call.before.params[call.inst.name \o <<"q">>] = Rat(1, 2)
    /\ call.before.params[call.inst.name \o <<"S", "max">>] = RInt(1000)
    /\ call.dt = RInt(500)
    /\ call.ret[call.inst.name \o <<"C">>] # call.before.states[call.inst.name \o <<"C">>]

(***************************************************************************)
(* C10                                                                     *)
(***************************************************************************)
\* C10 as stated: update_states reads only keys that init_state returns,
\* returns exactly those keys, and does not fail on a missing key.
C10_AsStated ==
    call.op = "update"
    => LET keys == DOMAIN InitState(call.inst, call.before.v, call.before.params).ret
       IN  /\ call.reads \subseteq keys
           /\ (call.inst \in dark => ~call.err)
           /\ (~call.err => DOMAIN call.ret = keys)

=============================================================================
